---------------------------- MODULE Spec2Model ----------------------------
(***************************************************************************)
(* State-machine model of opensky-proxy/server.js (lines 1-172): the       *)
(* protection middleware, the routes GET /, /health, /opensky/token and    *)
(* /opensky/states, the OAuth token cache (cachedToken, getToken,          *)
(* fetchTokenFromOpenSky) and fetchWithRetry.                              *)
(*                                                                         *)
(* Node runs one callback at a time: a handler runs without interruption   *)
(* until it reaches a pending await (fetch, sleep, r.text()).  Each action *)
(* below is one such uninterrupted run.  Requests are the slots of `req';  *)
(* several may be suspended at the same time.  Time is in milliseconds.    *)
(* The model starts where express hands a request to the code of           *)
(* server.js; the cors and body-parser libraries are outside it.           *)
(***************************************************************************)
EXTENDS Integers, FiniteSets, Sequences, TLC

\* ------------------------------------------------------------------ bounds
MaxRetries   == 1      \* largest configured TOKEN_MAX_RETRIES explored
MaxNow       == 1000   \* the clock stops here
MaxIssued    == 2      \* access tokens the token endpoint hands out
MaxExpiresIn == 1      \* largest expires_in (seconds) the endpoint declares
MaxBackoffRetries == 2 \* largest TOKEN_MAX_RETRIES explored in SpecBackoff
MaxTokenExpiresIn == 2 \* largest expires_in (seconds) declared in SpecToken

\* ------------------------------------------------------- program constants
TOKEN_RETRY_DELAY_MS == 1000
DefaultExpiresIn     == 1800
MsPerSecond          == 1000

\* two requests may be in flight together
ReqIds    == {1, 2}

\* the instants at which the clock is read: the start and the end of a one
\* second lifetime
Instants  == {t \in {0, 1000} : t <= MaxNow}

TokenStatuses   == {200, 503}
StatesStatuses  == {200, 404, 503}
\* "noToken": JSON without a truthy access_token (missing or empty)
TokenBodies     == {"token", "noToken", "notJson"}
StatesBodies    == {"json", "notJson"}
Payloads        == {1}
QueryTokens     == {0, 9}                 \* 0: no ?token= in the query
HeaderSecrets   == {"undefined", "s3cret", "wrong"}
ConfigSecrets   == {"undefined", "s3cret"}

VARIABLES
  cfg,          \* the environment read at start-up (never changes)
  now,          \* Date.now()
  cachedToken,  \* the module-level cachedToken
  req,          \* per request slot: where its handler is suspended
  nIssued,      \* tokens the token endpoint has issued so far
  actualExpiry, \* history: when the endpoint's lifetime of the cached token ends
  lastGood,     \* history: payload of the last 2xx JSON answer of /states/all
  hits          \* history: the returns of getToken from the cache

vars == <<cfg, now, cachedToken, req, nIssued, actualExpiry, lastGood, hits>>

\* cachedToken = null
NoToken == [access_token |-> 0, expires_at |-> 0]

NoResp   == [status |-> 0, body |-> "", tok |-> 0, expires_in |-> 0, issuedAt |-> 0]
NoAuth   == [scheme |-> "", tok |-> 0]
NoResult == [status |-> 0, body |-> "", data |-> 0]

IdleReq ==
  [pc |-> "idle", route |-> "", target |-> "", i |-> 0, wait |-> 0,
   resp |-> NoResp, auth |-> NoAuth, tokenCalls |-> 0, statesCalls |-> 0,
   sleeps |-> 0, got |-> 0, fend |-> "", hdr |-> "", hadGood |-> 0,
   qtok |-> 0, result |-> NoResult]

\* tok: the token the last cache hit returned since the clock last moved;
\* prev, late: set in the state right after a cache hit only: the token the
\* hit before it returned (at the same clock reading), and whether the
\* endpoint's lifetime of the returned token was over
NoHits == [tok |-> 0, prev |-> 0, late |-> FALSE]

oauthConfigured == cfg.oauth
basicConfigured == cfg.basic
PROXY_SECRET    == cfg.secret
TOKEN_MAX_RETRIES == cfg.retries

Init ==
  /\ cfg \in [basic : BOOLEAN, oauth : BOOLEAN, secret : ConfigSecrets,
              retries : 0..MaxRetries]
  /\ now = 0
  /\ cachedToken = NoToken
  /\ req = [r \in ReqIds |-> IdleReq]
  /\ nIssued = 0
  /\ actualExpiry = 0
  /\ lastGood = 0
  /\ hits = NoHits

\* A slot whose response has been sent is released by the next event, so a
\* finished request is on record in exactly one state.
Released == [r \in ReqIds |-> IF req[r].pc = "done" THEN IdleReq ELSE req[r]]

\* the history of cache hits when the event is not a cache hit
Settled == [hits EXCEPT !.prev = 0, !.late = FALSE]

\* ------------------------------------------------------------------- time
Tick ==
  /\ \E t \in Instants :
       /\ t > now
       /\ now' = t
  /\ req' = Released
  /\ hits' = NoHits
  /\ UNCHANGED <<cfg, cachedToken, nIssued, actualExpiry, lastGood>>

\* r.ok of node-fetch: a 2xx status
Ok(status) == status >= 200 /\ status < 300

\* ---------------------------------------------------------- fetchWithRetry
\* mutant: the loop stops one attempt early
LoopContinues_offByOne(i, retries) == i < retries

\* line 40: the loop runs while i <= retries
LoopContinues(i, retries) == i <= retries

\* mutant: the loop sleeps after the last attempt too
ShouldSleep_always(i, retries) == TRUE

\* line 45: after a caught error, sleep only when an attempt is left
ShouldSleep(i, retries) == i < retries

\* mutant: a response with an error status is thrown into the retry path
ReturnsResponse_okOnly(status) == Ok(status)

\* line 42: `return await fetch(...)': whatever response fetch resolves with,
\* of any status, is returned to the caller; only a rejection reaches catch.
ReturnsResponse(status) == TRUE

\* one call of fetch(url, ...) on behalf of request record q (line 42)
Attempt(q) ==
  [q EXCEPT !.pc = "await", !.wait = 0,
            !.tokenCalls  = IF q.target = "token"  THEN @ + 1 ELSE @,
            !.statesCalls = IF q.target = "states" THEN @ + 1 ELSE @]

\* fetchWithRetry(url, opts) entered: i = 0, first attempt sent
StartFetch(q, target) ==
  Attempt([q EXCEPT !.target = target, !.i = 0, !.sleeps = 0, !.got = 0,
                    !.fend = ""])

\* the response sent to the client, the request is over
Finish(q, status, body, data) ==
  [q EXCEPT !.pc = "done", !.i = 0, !.wait = 0, !.resp = NoResp, !.auth = NoAuth,
            !.qtok = 0,
            !.result = [status |-> status, body |-> body, data |-> data]]

\* mutant: the status the earlier handlers of the file answer with (line 269)
CatchStatus_500 == 500

\* the catch clauses of the two async routes (lines 123-126, 164-167)
CatchStatus == 504

\* mutant: the catch clause answers with the status alone, no JSON body
HandlerCatch_emptyBody(q) ==
  Finish([q EXCEPT !.hadGood = IF q.route = "states" THEN lastGood ELSE 0],
         CatchStatus, "", 0)

HandlerCatch(q) ==
  Finish([q EXCEPT !.hadGood = IF q.route = "states" THEN lastGood ELSE 0],
         CatchStatus, "timeout", 0)

\* mutant: the error thrown is caught by nobody and no response is sent
Thrown_unanswered(q) == [q EXCEPT !.fend = "threw", !.pc = "hung"]

\* line 48: throw lastErr, which lands in the route's catch
Thrown(q) == HandlerCatch([q EXCEPT !.fend = "threw"])

\* i++ and the loop test (line 40)
NextIteration(q) ==
  LET j == q.i + 1 IN
  IF LoopContinues(j, TOKEN_MAX_RETRIES)
    THEN Attempt([q EXCEPT !.i = j])
    ELSE Thrown(q)

\* lines 43-46: the attempt rejected (network failure or timeout)
Caught(q) ==
  IF ShouldSleep(q.i, TOKEN_MAX_RETRIES)
    THEN [q EXCEPT !.pc = "sleep", !.wait = TOKEN_RETRY_DELAY_MS,
                   !.sleeps = @ + 1]
    ELSE NextIteration(q)

FetchThrow(r) ==
  /\ req[r].pc = "await"
  /\ req' = [Released EXCEPT ![r] = Caught([req[r] EXCEPT !.got = 0])]
  /\ hits' = Settled
  /\ UNCHANGED <<cfg, now, cachedToken, nIssued, actualExpiry, lastGood>>

\* the timer of sleep(ms) fired.  The clock is read at few instants only, so
\* the resumption is not tied to it: some time >= wait has passed.
SleepDone(r) ==
  /\ req[r].pc = "sleep"
  /\ req' = [Released EXCEPT ![r] = NextIteration(req[r])]
  /\ hits' = Settled
  /\ UNCHANGED <<cfg, now, cachedToken, nIssued, actualExpiry, lastGood>>

\* lines 161-163: the upstream's status and body are forwarded to the client;
\* when `await r.text()' rejects (the body stream breaks or times out) the
\* handler's catch answers instead
Forward(q, resp, readable) ==
  IF readable
    THEN Finish([q EXCEPT !.hadGood = IF Ok(resp.status) THEN 0 ELSE lastGood],
                resp.status, IF resp.body = "json" THEN "json" ELSE "raw", resp.tok)
    ELSE HandlerCatch(q)

\* fetch resolved with a response: fetchWithRetry returns it.
\* fetchTokenFromOpenSky goes on to `await r.text()' (line 72); the states
\* handler reads the body and forwards it (lines 161-163: it touches no
\* shared state on either side of that await, which is folded in here).
Responded(q0, resp, readable) ==
  LET q == [q0 EXCEPT !.got = resp.status] IN
  IF ReturnsResponse(resp.status)
    THEN IF q.target = "token"
           THEN [q EXCEPT !.pc = "body", !.resp = resp, !.fend = "returned"]
           ELSE Forward([q EXCEPT !.fend = "returned"], resp, readable)
    ELSE Caught(q)

\* the token endpoint answers.  It issues a token with a 2xx answer; an
\* error answer whose body has an access_token all the same carries
\* BogusToken.
BogusToken == MaxIssued + 1

TokenFetchRespond(r, status, body, e) ==
  /\ req[r].pc = "await"
  /\ req[r].target = "token"
  /\ LET issues == body = "token" /\ Ok(status)
         tok == IF issues THEN nIssued + 1
                ELSE IF body = "token" THEN BogusToken ELSE 0
     IN
     /\ issues => nIssued < MaxIssued
     /\ ~issues => e = 1
     /\ req' = [Released EXCEPT ![r] = Responded(req[r],
                  [status |-> status, body |-> body, tok |-> tok,
                   expires_in |-> IF body = "token" THEN e ELSE 0,
                   issuedAt |-> IF issues THEN now ELSE 0], TRUE)]
     /\ nIssued' = IF issues THEN nIssued + 1 ELSE nIssued
  /\ hits' = Settled
  /\ UNCHANGED <<cfg, now, cachedToken, actualExpiry, lastGood>>

\* api/states/all answers; readable: `await r.text()' resolves
StatesFetchRespond(r, status, body, p, readable) ==
  /\ req[r].pc = "await"
  /\ req[r].target = "states"
  /\ LET resp == [status |-> status, body |-> body, tok |-> p,
                  expires_in |-> 0, issuedAt |-> 0]
     IN /\ req' = [Released EXCEPT ![r] = Responded(req[r], resp, readable)]
        /\ lastGood' = IF /\ ReturnsResponse(status) /\ readable
                           /\ Ok(status) /\ body = "json"
                          THEN p ELSE lastGood
  /\ hits' = Settled
  /\ UNCHANGED <<cfg, now, cachedToken, nIssued, actualExpiry>>

\* ------------------------------------------------------- the token cache

\* mutant: the status of the answer is not looked at
TokenAccepted_anyStatus(status, body) == body = "token"

\* line 74, negated: the response is taken as a token.  Only a body that
\* parses to an object with a truthy access_token passes (a body that is not
\* JSON becomes {raw}, an empty access_token is falsy).
TokenAccepted(status, body) == Ok(status) /\ body = "token"

\* mutant: the lifetime of the response is not read, the default is used
ExpiresAt_default(t, expires_in) ==
  t + ((DefaultExpiresIn * MsPerSecond * 9) \div 10)

\* lines 79-82: expires_at = Date.now() + Math.floor(ttl * 0.9), with
\* ttl = (data.expires_in || 1800) * 1000
ExpiresAt(t, expires_in) ==
  LET ttl == (IF expires_in # 0 THEN expires_in ELSE DefaultExpiresIn) * MsPerSecond
  IN  t + ((ttl * 9) \div 10)

\* mutant: a cached token is returned whatever the clock says
TokenValid_noExpiry == cachedToken # NoToken

\* line 89: cachedToken && Date.now() < cachedToken.expires_at
TokenValid == cachedToken # NoToken /\ now < cachedToken.expires_at

\* getToken returned cachedToken.access_token (line 89)
HitRecord ==
  [tok  |-> cachedToken.access_token,
   prev |-> hits.tok,
   late |-> now >= actualExpiry]

\* mutant: a stored answer of the states endpoint is served in place of a fetch
SendStates_fromCache(q, scheme, tok) ==
  IF lastGood # 0
    THEN Finish(q, 200, "json", lastGood)
    ELSE StartFetch([q EXCEPT !.auth = [scheme |-> scheme, tok |-> tok]], "states")

\* lines 160-163 entered with the Authorization header chosen
SendStates(q, scheme, tok) ==
  StartFetch([q EXCEPT !.auth = [scheme |-> scheme, tok |-> tok]], "states")

\* mutant: the handler sends the token the cache held when the refresh began
WithToken_stale(q, tok) ==
  IF q.route = "token"
    THEN Finish(q, 200, "token", tok)
    ELSE StartFetch([q EXCEPT !.auth = [scheme |-> "Bearer",
                                        tok |-> cachedToken.access_token]],
                    "states")

\* what the route does with the token getToken resolved with
\* (line 122, lines 153 and 160)
WithToken(q, tok) ==
  IF q.route = "token"
    THEN Finish(q, 200, "token", tok)
    ELSE SendStates(q, "Bearer", tok)

\* `await getToken()' (lines 87-91) as called by a route.  Both call sites
\* have tested oauthConfigured, so the throw of line 88 (which would land in
\* the route's catch) is never taken.
CallGetToken(r, q) ==
  IF ~oauthConfigured
    THEN /\ req' = [Released EXCEPT ![r] = HandlerCatch(q)]
         /\ hits' = Settled
    ELSE IF TokenValid
      THEN /\ req' = [Released EXCEPT ![r] = WithToken(q, cachedToken.access_token)]
           /\ hits' = HitRecord
      ELSE /\ req' = [Released EXCEPT ![r] = StartFetch(q, "token")]
           /\ hits' = Settled

\* lines 72-85 of fetchTokenFromOpenSky: `await r.text()' settles; when it
\* rejects (readable = FALSE) the error lands in the route's catch
TokenBodyRead(r, readable) ==
  /\ req[r].pc = "body"
  /\ req[r].target = "token"
  /\ LET q == req[r]
         resp == q.resp
     IN IF readable /\ TokenAccepted(resp.status, resp.body)
          THEN /\ cachedToken' = [access_token |-> resp.tok,
                                  expires_at |-> ExpiresAt(now, resp.expires_in)]
               /\ actualExpiry' = resp.issuedAt + resp.expires_in * MsPerSecond
               /\ req' = [Released EXCEPT ![r] = WithToken([q EXCEPT !.resp = NoResp], resp.tok)]
          ELSE /\ req' = [Released EXCEPT ![r] = HandlerCatch(q)]
               /\ UNCHANGED <<cachedToken, actualExpiry>>
  /\ hits' = Settled
  /\ UNCHANGED <<cfg, now, nIssued, lastGood>>

\* ------------------------------------------------------------- the routes
NewReq(route, hdr) == [IdleReq EXCEPT !.route = route, !.hdr = hdr]

\* a new request takes the lowest slot that is not in flight
Free(r) ==
  /\ req[r].pc \in {"idle", "done"}
  /\ \A r2 \in ReqIds : r2 < r => req[r2].pc \notin {"idle", "done"}

\* GET / and GET /health (lines 94-108)
RequestPublic(r, route) ==
  /\ Free(r)
  /\ req' = [Released EXCEPT ![r] = Finish(NewReq(route, ""), 200, "info", 0)]
  /\ hits' = Settled
  /\ UNCHANGED <<cfg, now, cachedToken, nIssued, actualExpiry, lastGood>>

\* GET /opensky/token (lines 111-127); registered above the middleware
RequestToken(r) ==
  /\ Free(r)
  /\ LET q == NewReq("token", "") IN
     IF basicConfigured /\ ~oauthConfigured
       THEN /\ req' = [Released EXCEPT ![r] = Finish(q, 503, "noOAuth", 0)]
            /\ hits' = Settled
       ELSE IF ~oauthConfigured
         THEN /\ req' = [Released EXCEPT ![r] = Finish(q, 503, "noOAuth", 0)]
              /\ hits' = Settled
         ELSE CallGetToken(r, q)
  /\ UNCHANGED <<cfg, now, cachedToken, nIssued, actualExpiry, lastGood>>

\* mutant: the header is compared only when a secret is configured
SecretMismatch_onlyIfSet(secret) ==
  PROXY_SECRET # "undefined" /\ secret # PROXY_SECRET

\* line 132 of the protection middleware
SecretMismatch(secret) == secret # PROXY_SECRET

\* mutant: the configured Basic credentials win over the token of the query
AuthChoice_basicFirst(qtoken) ==
  IF basicConfigured THEN "basic"
  ELSE IF qtoken # 0 THEN "query"
  ELSE IF oauthConfigured THEN "oauth"
  ELSE "none"

\* mutant: the last branch is taken without testing oauthConfigured
AuthChoice_oauthUntested(qtoken) ==
  IF qtoken # 0 THEN "query"
  ELSE IF basicConfigured THEN "basic"
  ELSE "oauth"

\* lines 147-158: the if / else if chain that picks the credentials
AuthChoice(qtoken) ==
  IF qtoken # 0 THEN "query"
  ELSE IF basicConfigured THEN "basic"
  ELSE IF oauthConfigured THEN "oauth"
  ELSE "none"

\* GET /opensky/states: the middleware (lines 130-134), then the handler up
\* to its first pending await (lines 137-160).  qtok: the token of the
\* query the handler runs for (history, cleared with the response).
RequestStates(r, secret, qtoken) ==
  /\ Free(r)
  /\ LET q == [NewReq("states", secret) EXCEPT !.qtok = qtoken]
         choice == AuthChoice(qtoken)
     IN
     IF SecretMismatch(secret)
       THEN /\ req' = [Released EXCEPT ![r] = Finish(q, 403, "unauthorized", 0)]
            /\ hits' = Settled
       ELSE IF choice = "query"
         THEN /\ req' = [Released EXCEPT ![r] = SendStates(q, "Bearer", qtoken)]
              /\ hits' = Settled
         ELSE IF choice = "basic"
           THEN /\ req' = [Released EXCEPT ![r] = SendStates(q, "Basic", 0)]
                /\ hits' = Settled
           ELSE IF choice = "oauth"
             THEN CallGetToken(r, q)
             ELSE /\ req' = [Released EXCEPT ![r] = Finish(q, 400, "noCredentials", 0)]
                  /\ hits' = Settled
  /\ UNCHANGED <<cfg, now, cachedToken, nIssued, actualExpiry, lastGood>>

Next ==
  \/ Tick
  \/ \E r \in ReqIds :
       \/ \E route \in {"/", "/health"} : RequestPublic(r, route)
       \/ RequestToken(r)
       \/ \E secret \in HeaderSecrets, qtoken \in QueryTokens :
            RequestStates(r, secret, qtoken)
       \/ FetchThrow(r)
       \/ SleepDone(r)
       \/ \E status \in TokenStatuses, body \in TokenBodies, e \in 1..MaxExpiresIn :
            TokenFetchRespond(r, status, body, e)
       \/ \E status \in StatesStatuses, body \in StatesBodies, p \in Payloads,
               readable \in BOOLEAN :
            StatesFetchRespond(r, status, body, p, readable)
       \/ \E readable \in BOOLEAN : TokenBodyRead(r, readable)

Spec == Init /\ [][Next]_vars

\* ------------------------------------------------- the retry loop at length
\* The server with Basic credentials only, where the token endpoint is never
\* called, and a retry limit up to MaxBackoffRetries: the steps are those of
\* Next that such a server can take.
InitBackoff ==
  /\ cfg \in [basic : {TRUE}, oauth : {FALSE}, secret : ConfigSecrets,
              retries : 0..MaxBackoffRetries]
  /\ now = 0
  /\ cachedToken = NoToken
  /\ req = [r \in ReqIds |-> IdleReq]
  /\ nIssued = 0
  /\ actualExpiry = 0
  /\ lastGood = 0
  /\ hits = NoHits

NextBackoff ==
  \/ Tick
  \/ \E r \in ReqIds :
       \/ \E route \in {"/", "/health"} : RequestPublic(r, route)
       \/ RequestToken(r)
       \/ \E secret \in HeaderSecrets, qtoken \in QueryTokens :
            RequestStates(r, secret, qtoken)
       \/ FetchThrow(r)
       \/ SleepDone(r)
       \/ \E status \in StatesStatuses, body \in StatesBodies, p \in Payloads,
               readable \in BOOLEAN :
            StatesFetchRespond(r, status, body, p, readable)

SpecBackoff == InitBackoff /\ [][NextBackoff]_vars

\* --------------------------------------------- tokens of several lifetimes
\* The server with OAuth credentials only and a secret configured, whose
\* token endpoint declares lifetimes up to MaxTokenExpiresIn, so that the
\* tokens in flight together differ in their expires_in.  The clients ask
\* for GET /, /health and /opensky/token only.
InitToken ==
  /\ cfg \in [basic : {FALSE}, oauth : {TRUE}, secret : {"s3cret"},
              retries : 0..MaxRetries]
  /\ now = 0
  /\ cachedToken = NoToken
  /\ req = [r \in ReqIds |-> IdleReq]
  /\ nIssued = 0
  /\ actualExpiry = 0
  /\ lastGood = 0
  /\ hits = NoHits

NextToken ==
  \/ Tick
  \/ \E r \in ReqIds :
       \/ \E route \in {"/", "/health"} : RequestPublic(r, route)
       \/ RequestToken(r)
       \/ FetchThrow(r)
       \/ SleepDone(r)
       \/ \E status \in TokenStatuses, body \in TokenBodies,
               e \in 1..MaxTokenExpiresIn :
            TokenFetchRespond(r, status, body, e)
       \/ \E readable \in BOOLEAN : TokenBodyRead(r, readable)

SpecToken == InitToken /\ [][NextToken]_vars

\* ------------------------------------------------------------ progress
\* The server asked for /opensky/states only, a secret configured, within
\* the first reading of the clock (requests overlap, cached tokens do not
\* expire), under the fairness the runtime and the network give: a pending
\* fetch resolves, rejects or times out (node-fetch's timeout option, line
\* 42), a timer set by sleep fires (line 37), and the read of a body settles.
InitLive ==
  /\ cfg \in [basic : BOOLEAN, oauth : BOOLEAN, secret : {"s3cret"},
              retries : 0..MaxRetries]
  /\ now = 0
  /\ cachedToken = NoToken
  /\ req = [r \in ReqIds |-> IdleReq]
  /\ nIssued = 0
  /\ actualExpiry = 0
  /\ lastGood = 0
  /\ hits = NoHits

FetchSettles(r) ==
  \/ FetchThrow(r)
  \/ \E status \in TokenStatuses, body \in TokenBodies, e \in 1..MaxExpiresIn :
       TokenFetchRespond(r, status, body, e)
  \/ \E status \in StatesStatuses, body \in StatesBodies, p \in Payloads,
          readable \in BOOLEAN :
       StatesFetchRespond(r, status, body, p, readable)

BodySettles(r) == \E readable \in BOOLEAN : TokenBodyRead(r, readable)

NextLive ==
  \E r \in ReqIds :
       \/ \E secret \in HeaderSecrets, qtoken \in QueryTokens :
            RequestStates(r, secret, qtoken)
       \/ FetchSettles(r)
       \/ SleepDone(r)
       \/ BodySettles(r)

SpecLive ==
  /\ InitLive
  /\ [][NextLive]_vars
  /\ \A r \in ReqIds :
       /\ WF_vars(FetchSettles(r))
       /\ WF_vars(SleepDone(r))
       /\ WF_vars(BodySettles(r))

\* ================================================================ claims
\* the statuses the specification calls retriable; the code has no such set
RetriableStatuses == {408, 429, 500, 502, 503, 504}

\* attempts of the fetchWithRetry call request record q is in, or was in last
Calls(q) == IF q.target = "token" THEN q.tokenCalls ELSE q.statesCalls

\* the call of fetchWithRetry by q has returned a response to its caller
Returned(q) == q.fend = "returned"

\* C1 as stated: a retriable outcome (a rejection, or an answer whose status
\* is in RetriableStatuses) is never what fetchWithRetry returns; the call
\* ends only by throwing, after exactly retries + 1 attempts.
C1_Original ==
  \A r \in ReqIds :
    LET q == req[r] IN
    /\ Returned(q) => q.got \notin RetriableStatuses
    /\ q.fend = "threw" => Calls(q) = TOKEN_MAX_RETRIES + 1

\* C1 amended: when every attempt rejects (network failure or timeout),
\* fetchWithRetry makes exactly retries + 1 attempts, sleeps between them
\* and not after the last, and then throws, which the route answers with
\* 504; an answer of any status, also a retriable one, ends the call at the
\* attempt that got it.
C1_ThrowAfterAllAttempts ==
  \A r \in ReqIds :
    LET q == req[r] IN
    /\ q.fend = "threw" =>
         /\ Calls(q) = TOKEN_MAX_RETRIES + 1
         /\ q.sleeps = TOKEN_MAX_RETRIES
         /\ q.got = 0
         /\ q.pc = "done" /\ q.result.status = CatchStatus
    /\ q.pc \in {"await", "sleep"} => Calls(q) <= TOKEN_MAX_RETRIES + 1
    /\ (Returned(q) /\ q.got \in RetriableStatuses) => Calls(q) = q.sleeps + 1

C1_Witness ==
  \E r \in ReqIds :
    /\ req[r].fend = "threw"
    /\ TOKEN_MAX_RETRIES >= 1
    /\ Calls(req[r]) = TOKEN_MAX_RETRIES + 1

\* C2: an answer whose status is outside RetriableStatuses ends the call of
\* fetchWithRetry: the response is returned as it is (its status is the one
\* the caller sees), with no sleep and no attempt after it; when it answers
\* the first attempt (no attempt before it failed and slept), the call made
\* exactly 1 attempt.
C2_NonRetriableReturnedAtOnce ==
  \A r \in ReqIds :
    LET q == req[r] IN
    (q.got # 0 /\ q.got \notin RetriableStatuses) =>
      /\ Returned(q)
      /\ q.pc \in {"body", "done"}
      /\ q.wait = 0
      /\ q.pc = "body" => q.resp.status = q.got
      /\ (q.pc = "done" /\ q.target = "states" /\ q.result.body # "timeout") =>
           q.result.status = q.got
      /\ Calls(q) = q.sleeps + 1
      /\ q.sleeps = 0 => Calls(q) = 1

C2_Witness ==
  \E r \in ReqIds :
    /\ req[r].got = 404
    /\ req[r].pc = "done"
    /\ req[r].result.status = 404
    /\ req[r].statesCalls = 1

\* C3 as stated: two calls of getToken that both return from the cache, at
\* the same reading of the clock (so both before the expires_at of the token
\* the first one returned), return the same token.
C3_Original == hits.prev # 0 => hits.prev = hits.tok

\* C4 as stated: getToken never returns a cached token at or after the time
\* the endpoint issued it plus the lifetime the endpoint declared.
C4_Original == ~hits.late

\* the step of request r is a token fetch that fails: fetchWithRetry throws
\* after its last attempt, or the answer read is not a 2xx with an
\* access_token
TokenFetchFails(r) ==
  /\ req[r].target = "token"
  /\ \/ req[r].pc \in {"await", "sleep"} /\ req'[r].fend = "threw"
     \/ /\ req[r].pc = "body"
        /\ req'[r] # req[r]
        /\ ~(Ok(req[r].resp.status) /\ req[r].resp.body = "token")

\* C5: a token fetch that fails leaves cachedToken as it was and the route
\* answers with an error; cachedToken changes only in the step that reads a
\* 2xx answer with a non-empty access_token, and then holds that token.
C5_WrittenOnlyOnSuccess ==
  [][ /\ \A r \in ReqIds :
           TokenFetchFails(r) =>
             /\ cachedToken' = cachedToken
             /\ req'[r].pc = "done"
             /\ req'[r].result.status = CatchStatus
             /\ req'[r].result.body = "timeout"
      /\ cachedToken' # cachedToken =>
           \E r \in ReqIds :
             /\ req[r].pc = "body" /\ req[r].target = "token"
             /\ req'[r].pc # "body"
             /\ Ok(req[r].resp.status)
             /\ req[r].resp.body = "token"
             /\ req[r].resp.tok # 0
             /\ cachedToken'.access_token = req[r].resp.tok
    ]_vars

\* a token fetch has failed while an earlier token is cached, and is intact
C5_Witness ==
  \E r \in ReqIds :
    /\ req[r].pc = "done" /\ req[r].target = "token"
    /\ req[r].result.status = CatchStatus
    /\ req[r].tokenCalls > 0
    /\ cachedToken # NoToken

\* C6 as stated: with Basic credentials configured no request ever calls the
\* token endpoint and cachedToken stays empty.
C6_Original ==
  basicConfigured =>
    /\ cachedToken = NoToken
    /\ \A r \in ReqIds : req[r].tokenCalls = 0

\* C7 as stated: at most one fetch of the token endpoint is in flight.
C7_Original ==
  Cardinality({r \in ReqIds : req[r].pc = "await" /\ req[r].target = "token"}) <= 1

\* C8: a request to /opensky/states whose x-proxy-secret header differs from
\* the configured secret is answered 403 at once, having made no call of the
\* token endpoint and none of the states endpoint.
C8_MismatchIs403 ==
  \A r \in ReqIds :
    LET q == req[r] IN
    (q.route = "states" /\ q.hdr # PROXY_SECRET) =>
      /\ q.pc = "done"
      /\ q.result.status = 403
      /\ q.tokenCalls = 0
      /\ q.statesCalls = 0

\* a wrong secret was refused although the environment sets no secret
C8_Witness ==
  \E r \in ReqIds :
    /\ req[r].route = "states" /\ req[r].hdr = "wrong"
    /\ PROXY_SECRET = "undefined"
    /\ req[r].pc = "done" /\ req[r].result.status = 403

\* C9 as stated: a request to /opensky/states without the x-proxy-secret
\* header makes no outbound call, whatever the configuration.
C9_Original ==
  \A r \in ReqIds :
    (req[r].route = "states" /\ req[r].hdr = "undefined") =>
      req[r].tokenCalls = 0 /\ req[r].statesCalls = 0

\* request record q is an authorised /opensky/states request whose fetch
\* failed after an earlier 2xx JSON answer of the states endpoint
FailedAfterGood(q) ==
  /\ q.pc = "done" /\ q.route = "states"
  /\ q.hdr = PROXY_SECRET
  /\ q.tokenCalls + q.statesCalls > 0
  /\ q.hadGood # 0

\* C10 as stated: such a request (a secret being configured) is answered 200
\* with stale = true and the payload of the earlier answer.
C10_Original ==
  \A r \in ReqIds :
    (FailedAfterGood(req[r]) /\ PROXY_SECRET # "undefined") =>
      /\ req[r].result.status = 200
      /\ req[r].result.body = "stale"
      /\ req[r].result.data = req[r].hadGood

\* C10 amended: such a request is answered with an error status and never
\* with the earlier payload as a stale answer: 504 with an error body when
\* fetchWithRetry threw, the token fetch failed or the body of the answer
\* could not be read, else the status and body of the upstream's own error
\* answer.
C10_FailureIsAnError ==
  \A r \in ReqIds :
    LET q == req[r] IN
    FailedAfterGood(q) =>
      /\ ~Ok(q.result.status)
      /\ q.result.body # "stale"
      /\ \/ /\ q.result.status = 504
            /\ q.result.body = "timeout"
            /\ q.result.data = 0
         \/ /\ Returned(q) /\ q.target = "states"
            /\ q.result.status = q.got
            /\ q.result.body \in {"json", "raw"}
      /\ (q.fend = "threw" \/ q.target = "token") =>
           /\ q.result.status = 504
           /\ q.result.body = "timeout"

C10_Witness ==
  \E r \in ReqIds :
    /\ FailedAfterGood(req[r])
    /\ req[r].fend = "threw"
    /\ req[r].result.status = 504

\* the step hands a new request of slot r, with the configured secret in its
\* header, to the handler of /opensky/states
StartsStates(r) ==
  /\ req[r].pc \in {"idle", "done"}
  /\ req'[r] # req[r]
  /\ req'[r].route = "states"
  /\ req'[r].hdr = PROXY_SECRET

\* C11 as stated (its first half): an authorised request that arrives after a
\* successful states fetch, with the clock where it was at that fetch (so
\* t - fetchedAt = 0, inside every window), is answered at once with the
\* stored payload and makes no upstream call.  (The second half needs a
\* window, which the code does not have.)
C11_Original ==
  [][ \A r \in ReqIds :
        (StartsStates(r) /\ PROXY_SECRET # "undefined"
           /\ lastGood # 0 /\ now = 0) =>
          /\ req'[r].pc = "done"
          /\ req'[r].result.data = lastGood
          /\ req'[r].tokenCalls = 0
          /\ req'[r].statesCalls = 0
    ]_vars

\* C11 amended: there is no cache of answers.  Every authorised request that
\* has credentials starts an upstream call (of the token endpoint or of the
\* states endpoint) in the step it arrives, however recent the last
\* successful fetch; without credentials it is answered 400; and every 2xx
\* answer a request gets is the answer of a states fetch of its own.
C11_AlwaysFetches ==
  [][ /\ \A r \in ReqIds :
           StartsStates(r) =>
             \/ /\ ~basicConfigured /\ ~oauthConfigured
                /\ req'[r].pc = "done"
                /\ req'[r].result.status = 400
                /\ req'[r].tokenCalls + req'[r].statesCalls = 0
             \/ /\ req'[r].pc = "await"
                /\ req'[r].tokenCalls + req'[r].statesCalls = 1
      /\ \A r \in ReqIds :
           (req'[r].route = "states" /\ req'[r].pc = "done"
              /\ Ok(req'[r].result.status)) =>
             /\ req'[r].statesCalls >= 1
             /\ Returned(req'[r])
             /\ req'[r].got = req'[r].result.status
    ]_vars

\* a request is fetching the states although a 2xx JSON answer was received
\* at this very reading of the clock
C11_Witness ==
  \E r \in ReqIds :
    /\ lastGood # 0 /\ now = 0
    /\ req[r].route = "states" /\ req[r].hdr = PROXY_SECRET
    /\ req[r].pc = "await" /\ req[r].target = "states"
    /\ req[r].statesCalls = 1 /\ req[r].tokenCalls = 0
    /\ \A r2 \in ReqIds \ {r} : req[r2].pc = "idle"

\* request record q is an authorised /opensky/states request that made an
\* upstream call and was answered with an error, no states fetch having
\* succeeded so far
ColdFailure(q) ==
  /\ q.pc = "done" /\ q.route = "states"
  /\ q.hdr = PROXY_SECRET
  /\ q.tokenCalls + q.statesCalls > 0
  /\ lastGood = 0
  /\ ~Ok(q.result.status)

\* C12 as stated: such a request (a secret being configured) is answered 504
\* with an error object and no data, whatever the failure, an error status of
\* the upstream included.
C12_Original ==
  \A r \in ReqIds :
    (ColdFailure(req[r]) /\ PROXY_SECRET # "undefined") =>
      /\ req[r].result.status = 504
      /\ req[r].result.body = "timeout"
      /\ req[r].result.data = 0

\* C12 amended: such a request is answered 504 with an error object and no
\* data when fetchWithRetry threw after its attempts, the token fetch failed
\* or the body of the answer could not be read; an error status answered by
\* the states endpoint is forwarded with that status and the upstream's body.
\* The answer always has a body.
C12_ColdFailureAnswer ==
  \A r \in ReqIds :
    LET q == req[r] IN
    ColdFailure(q) =>
      /\ q.result.body # ""
      /\ \/ /\ q.result.status = 504
            /\ q.result.body = "timeout"
            /\ q.result.data = 0
         \/ /\ Returned(q) /\ q.target = "states"
            /\ ~Ok(q.got)
            /\ q.result.status = q.got
            /\ q.result.body \in {"json", "raw"}
      /\ (q.fend = "threw" \/ q.target = "token") =>
           /\ q.result.status = 504
           /\ q.result.body = "timeout"
           /\ q.result.data = 0

C12_Witness ==
  \E r \in ReqIds :
    /\ ColdFailure(req[r])
    /\ req[r].fend = "threw"
    /\ req[r].target = "states"
    /\ req[r].result.status = 504
    /\ req[r].result.body = "timeout"

\* request record q is a request to /opensky/states that passed the
\* protection middleware
Authorised(q) == q.route = "states" /\ q.hdr = PROXY_SECRET

\* C13 as stated: with neither Basic nor OAuth configured (and a secret
\* configured) no authorised request makes an upstream call and none is
\* answered with a success, whatever its query.
C13_Original ==
  (~basicConfigured /\ ~oauthConfigured /\ PROXY_SECRET # "undefined") =>
    \A r \in ReqIds :
      Authorised(req[r]) =>
        /\ req[r].tokenCalls = 0
        /\ req[r].statesCalls = 0
        /\ req[r].pc = "done" => ~Ok(req[r].result.status)

\* C13 amended: with neither Basic nor OAuth configured, an authorised
\* request whose query has no token is answered 400 at once and makes no
\* upstream call; one whose query has a token is sent to the states endpoint
\* with that token as Bearer; no request calls the token endpoint.
C13_FailsClosedWithoutQueryToken ==
  (~basicConfigured /\ ~oauthConfigured) =>
    \A r \in ReqIds :
      LET q == req[r] IN
      /\ q.tokenCalls = 0
      /\ Authorised(q) =>
           /\ q.pc \in {"await", "sleep"} =>
                /\ q.qtok # 0
                /\ q.target = "states"
                /\ q.auth = [scheme |-> "Bearer", tok |-> q.qtok]
           /\ (q.pc = "done" /\ q.statesCalls = 0) =>
                /\ q.result.status = 400
                /\ q.result.body = "noCredentials"
           /\ q.pc \in {"await", "sleep", "done"}

C13_Witness ==
  \E r \in ReqIds :
    /\ ~basicConfigured /\ ~oauthConfigured /\ PROXY_SECRET # "undefined"
    /\ Authorised(req[r])
    /\ req[r].pc = "done"
    /\ req[r].result.status = 400
    /\ req[r].statesCalls = 0

\* C14: in OAuth-only mode an authorised request to /opensky/states without
\* a token in its query that finds no valid cached token starts exactly one
\* fetch of the token endpoint and no states fetch; a successful answer to
\* it is followed by no further token fetch; when the token is read the
\* request starts exactly one states fetch, carrying as Bearer the token of
\* that answer, so the states fetch starts after the token fetch is complete;
\* a successful answer to the states fetch ends the request with no further
\* fetch.
C14_TokenThenStates ==
  [][ (~basicConfigured /\ oauthConfigured) =>
        \A r \in ReqIds :
          /\ (StartsStates(r) /\ req'[r].qtok = 0 /\ ~TokenValid) =>
               /\ req'[r].pc = "await" /\ req'[r].target = "token"
               /\ req'[r].tokenCalls = 1
               /\ req'[r].statesCalls = 0
          /\ (req'[r].route = "states" /\ req'[r].target = "token") =>
               req'[r].statesCalls = 0
          /\ (req[r].route = "states" /\ req[r].pc = "await"
                /\ req[r].target = "token" /\ req'[r].pc = "body") =>
               /\ req'[r].tokenCalls = req[r].tokenCalls
               /\ req'[r].statesCalls = 0
          /\ (req[r].route = "states" /\ req[r].pc = "body"
                /\ req'[r].pc = "await") =>
               /\ Ok(req[r].resp.status)
               /\ req'[r].target = "states"
               /\ req'[r].tokenCalls = req[r].tokenCalls
               /\ req'[r].statesCalls = 1
               /\ req'[r].auth = [scheme |-> "Bearer", tok |-> req[r].resp.tok]
               /\ req[r].resp.tok # 0
          /\ (req[r].route = "states" /\ req[r].pc = "await"
                /\ req[r].target = "states" /\ req'[r].pc = "done"
                /\ Ok(req'[r].result.status)) =>
               /\ req'[r].statesCalls = req[r].statesCalls
               /\ req'[r].tokenCalls = req[r].tokenCalls
    ]_vars

\* the request that fetched the only token issued so far has been answered
\* 200 after one token fetch and one states fetch
C14_Witness ==
  \E r \in ReqIds :
    /\ ~basicConfigured /\ oauthConfigured /\ PROXY_SECRET # "undefined"
    /\ Authorised(req[r])
    /\ nIssued = 1
    /\ req[r].pc = "done"
    /\ req[r].result.status = 200 /\ req[r].result.body = "json"
    /\ req[r].tokenCalls = 1
    /\ req[r].statesCalls = 1

\* the step hands a new request of slot r to a handler that calls getToken:
\* GET /opensky/token, or an authorised GET /opensky/states with no token in
\* its query and no Basic credentials configured
CallsGetToken(r) ==
  /\ oauthConfigured
  /\ req[r].pc \in {"idle", "done"}
  /\ req'[r] # req[r]
  /\ \/ req'[r].route = "token"
     \/ Authorised(req'[r]) /\ ~basicConfigured /\ req'[r].qtok = 0

\* the token getToken resolved with, as request record q holds it
TokenGot(q) == IF q.route = "token" THEN q.result.data ELSE q.auth.tok

\* C15: a call of getToken made while a token is cached and now <
\* expires_at returns that token with no fetch; made with no cached token,
\* or at or after expires_at, it returns nothing from the cache and starts a
\* fetch of the token endpoint; and when that fetch has succeeded the value
\* getToken returns is the token of that fetch.
C15_NeverReturnsExpired ==
  [][ \A r \in ReqIds :
        /\ CallsGetToken(r) =>
             IF cachedToken # NoToken /\ now < cachedToken.expires_at
               THEN /\ req'[r].tokenCalls = 0
                    /\ TokenGot(req'[r]) = cachedToken.access_token
                    /\ cachedToken' = cachedToken
               ELSE /\ req'[r].pc = "await"
                    /\ req'[r].target = "token"
                    /\ req'[r].tokenCalls = 1
                    /\ req'[r].result = NoResult
                    /\ req'[r].auth = NoAuth
        /\ (req[r].pc = "body" /\ req'[r] # req[r]
              /\ req'[r].result.status # CatchStatus) =>
             /\ TokenGot(req'[r]) = req[r].resp.tok
             /\ req[r].tokenCalls >= 1
    ]_vars

\* both requests in flight are fetching a token at a time when the cached
\* token has reached its expires_at: the one that came after that token was
\* stored found it expired
C15_Witness ==
  /\ cachedToken # NoToken
  /\ now >= cachedToken.expires_at
  /\ \A r \in ReqIds :
       /\ req[r].pc = "await"
       /\ req[r].target = "token"
       /\ req[r].tokenCalls = 1

\* C16 as stated, for the waits it tells apart from a constant delay: the
\* wait before retry k is min(capDelay, baseDelay x 2^k) plus a jitter >= 0,
\* growing until the cap, so with baseDelay = TOKEN_RETRY_DELAY_MS every wait
\* after the first (k >= 1) is longer than TOKEN_RETRY_DELAY_MS.
C16_Original ==
  \A r \in ReqIds :
    (req[r].pc = "sleep" /\ req[r].i >= 1) => req[r].wait > TOKEN_RETRY_DELAY_MS

\* C16 amended: every wait of fetchWithRetry is TOKEN_RETRY_DELAY_MS, the
\* same before every retry, with no growth, no cap and no jitter; a wait
\* occurs only after an attempt that threw and is not the last one (attempt
\* index i < retries), one wait per such attempt, and never after the final
\* attempt.
C16_ConstantDelay ==
  \A r \in ReqIds :
    LET q == req[r] IN
    /\ q.pc = "sleep" =>
         /\ q.wait = TOKEN_RETRY_DELAY_MS
         /\ q.i < TOKEN_MAX_RETRIES
         /\ q.sleeps = q.i + 1
         /\ Calls(q) = q.i + 1
         /\ q.got = 0
    /\ q.pc # "sleep" => q.wait = 0
    /\ q.fend = "threw" => q.sleeps = TOKEN_MAX_RETRIES

\* the second wait of a call is under way, as long as the first
C16_Witness ==
  \E r \in ReqIds :
    /\ req[r].pc = "sleep"
    /\ req[r].i = 1
    /\ req[r].sleeps = 2
    /\ req[r].wait = TOKEN_RETRY_DELAY_MS

\* C17: cachedToken is empty or one pair; every step that changes it reads
\* one successful token response and replaces the pair whole, both fields
\* from that response: the access_token it carries and an expires_at
\* computed from the expires_in it declares (90% of it, from the time of the
\* step); it is never emptied again and no step writes one field alone.
C17_PairFromOneResponse ==
  [][ /\ cachedToken' # cachedToken =>
           \E r \in ReqIds :
             /\ req[r].pc = "body"
             /\ Ok(req[r].resp.status)
             /\ req[r].resp.body = "token"
             /\ req[r].resp.expires_in # 0
             /\ cachedToken' =
                  [access_token |-> req[r].resp.tok,
                   expires_at |-> now + ((req[r].resp.expires_in * 1000 * 9) \div 10)]
      /\ \/ cachedToken' = NoToken
         \/ /\ cachedToken'.access_token \in 1..nIssued'
            /\ cachedToken'.expires_at > 0
    ]_vars

\* a pair is cached while the answer of a concurrent refresh, with another
\* token and another lifetime, waits to be stored
C17_Witness ==
  /\ cachedToken # NoToken
  /\ \E r \in ReqIds :
       /\ req[r].pc = "body"
       /\ Ok(req[r].resp.status)
       /\ req[r].resp.body = "token"
       /\ req[r].resp.tok # cachedToken.access_token
       /\ now + req[r].resp.expires_in * 900 # cachedToken.expires_at
       /\ req[r].resp.issuedAt = now
       /\ cachedToken.expires_at > now

\* C18: an authorised request to /opensky/states in flight carries the
\* Authorization chosen by strict priority: with a token in its query,
\* Bearer with that token, whatever credentials are configured, and then it
\* is never fetching or reading a token (so it calls no token endpoint and
\* does not write cachedToken); else Basic when Basic is configured, again
\* with no token fetch; else OAuth is configured and the request first
\* fetches a token, with no Authorization chosen yet, and then sends as
\* Bearer a token the endpoint issued.
C18_AuthorizationPriority ==
  \A r \in ReqIds :
    LET q == req[r] IN
    (Authorised(q) /\ q.pc \in {"await", "sleep", "body"}) =>
      /\ q.qtok # 0 =>
           /\ q.auth = [scheme |-> "Bearer", tok |-> q.qtok]
           /\ q.target = "states"
           /\ q.pc # "body"
           /\ q.tokenCalls = 0
      /\ (q.qtok = 0 /\ basicConfigured) =>
           /\ q.auth = [scheme |-> "Basic", tok |-> 0]
           /\ q.target = "states"
           /\ q.pc # "body"
           /\ q.tokenCalls = 0
      /\ (q.qtok = 0 /\ ~basicConfigured) =>
           /\ oauthConfigured
           /\ q.target = "token" => q.auth = NoAuth /\ q.statesCalls = 0
           /\ q.target = "states" =>
                /\ q.auth.scheme = "Bearer"
                /\ q.auth.tok \in 1..nIssued

\* the token of the query is being sent although Basic and OAuth are both
\* configured
C18_Witness ==
  \E r \in ReqIds :
    /\ basicConfigured /\ oauthConfigured /\ PROXY_SECRET # "undefined"
    /\ Authorised(req[r])
    /\ req[r].qtok # 0
    /\ req[r].pc = "await"
    /\ req[r].auth = [scheme |-> "Bearer", tok |-> req[r].qtok]
    /\ req[r].tokenCalls = 0

\* the statuses the handler of /opensky/states and the middleware answer with
AnswerStatuses == {400, 403, CatchStatus} \cup StatesStatuses

\* C19: every request to /opensky/states that is in flight is eventually
\* answered, given that its fetches, timers and body reads settle; a request
\* in flight has no response yet and an answered one has exactly the one it
\* got (403, 400, the forwarded status or 504); no call of fetchWithRetry
\* makes more than retries + 1 attempts.
C19_EventuallyOneResponse ==
  /\ [](\A r \in ReqIds :
          LET q == req[r] IN
          q.route = "states" =>
            /\ q.pc \in {"await", "sleep", "body", "done"}
            /\ q.pc # "done" => q.result = NoResult
            /\ q.pc = "done" => q.result.status \in AnswerStatuses
            /\ q.tokenCalls <= TOKEN_MAX_RETRIES + 1
            /\ q.statesCalls <= TOKEN_MAX_RETRIES + 1
            /\ q.i <= TOKEN_MAX_RETRIES)
  /\ \A r \in ReqIds :
       (req[r].route = "states" /\ req[r].pc # "done")
         ~> (req[r].route = "states" /\ req[r].pc = "done"
               /\ req[r].result.status \in AnswerStatuses)

\* a request has been answered 504 after the last of its retries + 1 attempts
C19_Witness ==
  \E r \in ReqIds :
    /\ TOKEN_MAX_RETRIES >= 1
    /\ req[r].route = "states"
    /\ req[r].pc = "done"
    /\ req[r].fend = "threw"
    /\ req[r].statesCalls = TOKEN_MAX_RETRIES + 1
    /\ req[r].result.status = CatchStatus

============================================================================
